---- MODULE Spec2Model ----
(***************************************************************************)
(* The persistence-integrity layer of the event-booking application: the   *)
(* Mongoose pre-save hooks of the Event and Booking schemas and slugify.   *)
(*                                                                         *)
(* A JavaScript string is modelled as a sequence of one-character strings, *)
(* so that trimming, case folding, regular-expression matching, padding    *)
(* and slicing are computed character by character.                        *)
(***************************************************************************)
EXTENDS Integers, Sequences, FiniteSets, TLC

VARIABLES
    events,     \* Event collection: _id -> stored field values
    doc,        \* the Event document held in memory (or NoDoc)
    last,       \* what the last Event save() did (history variable)
    nops,       \* number of Event operations performed so far
    tzEast,     \* whether the process's local time zone is east of UTC
    bookings,   \* Booking collection: set of stored bookings
    brun,       \* the Booking document being saved and its hook's position
    nruns,      \* number of Booking save() calls started so far
    sx,         \* SlugSpec: the input string handed to slugify
    sout        \* SlugSpec: slugify's results for sx

vars == <<events, doc, last, nops, tzEast, bookings, brun, nruns, sx, sout>>

(***************************************************************************)
(* Bounds                                                                  *)
(***************************************************************************)
MaxEvents == 1      \* stored Events
MaxOps == 6         \* Event operations per behaviour
MaxRuns == 2        \* Booking save() calls per behaviour
MaxSlugLen == 4     \* length of slugify's input in SlugSpec

(***************************************************************************)
(* Characters and strings                                                  *)
(***************************************************************************)
UpperLetters ==
    <<"A","B","C","D","E","F","G","H","I","J","K","L","M",
      "N","O","P","Q","R","S","T","U","V","W","X","Y","Z">>

LowerLetters ==
    <<"a","b","c","d","e","f","g","h","i","j","k","l","m",
      "n","o","p","q","r","s","t","u","v","w","x","y","z">>

DigitChars == <<"0","1","2","3","4","5","6","7","8","9">>

Range(f) == { f[i] : i \in DOMAIN f }

\* the element of a one-element set: a value computed once and then used
The(S) == CHOOSE x \in S : TRUE

\* position of c in seq (0 when it is not there)
IndexOf(seq, c) ==
    IF \E i \in 1..Len(seq) : seq[i] = c
    THEN CHOOSE i \in 1..Len(seq) : seq[i] = c
    ELSE 0

\* \s of a regular expression, and what String.prototype.trim removes
IsSpace(c) == c \in {" ", "\t", "\n"}

\* \d
IsDigit(c) == IndexOf(DigitChars, c) # 0

\* Number("7") for one digit
DigitVal(c) == IndexOf(DigitChars, c) - 1

\* [a-z0-9]
IsLowerAlnum(c) == IndexOf(LowerLetters, c) # 0 \/ IsDigit(c)

\* String.prototype.toLowerCase, one character
LowerChar(c) ==
    IF IndexOf(UpperLetters, c) # 0 THEN LowerLetters[IndexOf(UpperLetters, c)] ELSE c

toLowerCase(s) == [i \in 1..Len(s) |-> LowerChar(s[i])]

RECURSIVE TrimStart(_)
TrimStart(s) ==
    IF s # <<>> /\ IsSpace(Head(s)) THEN TrimStart(Tail(s)) ELSE s

RECURSIVE TrimEnd(_)
TrimEnd(s) ==
    IF s # <<>> /\ IsSpace(s[Len(s)])
    THEN TrimEnd(SubSeq(s, 1, Len(s) - 1))
    ELSE s

\* String.prototype.trim
trim(s) == TrimEnd(TrimStart(s))

\* the value of a path that was never set
Undefined == <<"UNDEFINED">>

\* typeof v === "string"
IsString(v) == v # Undefined

\* JavaScript truthiness of a string-or-undefined value
Truthy(v) == IsString(v) /\ v # <<>>

(***************************************************************************)
(* slugify                                                                 *)
(***************************************************************************)
\* .replace(/[^a-z0-9]+/g, "-"): every maximal run outside [a-z0-9] becomes "-"
RECURSIVE ReplaceNonAlnumRuns(_, _)
ReplaceNonAlnumRuns(s, inRun) ==
    IF s = <<>> THEN <<>>
    ELSE IF IsLowerAlnum(Head(s))
         THEN <<Head(s)>> \o ReplaceNonAlnumRuns(Tail(s), FALSE)
         ELSE IF inRun
              THEN ReplaceNonAlnumRuns(Tail(s), TRUE)
              ELSE <<"-">> \o ReplaceNonAlnumRuns(Tail(s), TRUE)

RECURSIVE DropLeadingDashes(_)
DropLeadingDashes(s) ==
    IF s # <<>> /\ Head(s) = "-" THEN DropLeadingDashes(Tail(s)) ELSE s

RECURSIVE DropTrailingDashes(_)
DropTrailingDashes(s) ==
    IF s # <<>> /\ s[Len(s)] = "-"
    THEN DropTrailingDashes(SubSeq(s, 1, Len(s) - 1))
    ELSE s

\* the same replacement without the g flag: only the first match is removed
StripDashesFirstMatchOnly(s) ==
    IF s # <<>> /\ Head(s) = "-" THEN DropLeadingDashes(s)
    ELSE DropTrailingDashes(s)

\* .replace(/^-+|-+$/g, "")
StripDashes(s) == DropTrailingDashes(DropLeadingDashes(s))

slugify(value) ==
    The({ StripDashes(dashed) :
            dashed \in { ReplaceNonAlnumRuns(trimmed, FALSE) :
                trimmed \in { trim(lowered) :
                    lowered \in {toLowerCase(value)} } } })

(***************************************************************************)
(* Numbers and padding                                                     *)
(***************************************************************************)
\* Number(s) for a string of decimal digits
RECURSIVE NumVal(_)
NumVal(s) ==
    IF s = <<>> THEN 0
    ELSE NumVal(SubSeq(s, 1, Len(s) - 1)) * 10 + DigitVal(s[Len(s)])

AllDigits(s) == \A i \in 1..Len(s) : IsDigit(s[i])

\* Number.prototype.toString for a non-negative integer
RECURSIVE NumToString(_)
NumToString(n) ==
    IF n < 10 THEN <<DigitChars[n + 1]>>
    ELSE NumToString(n \div 10) \o <<DigitChars[(n % 10) + 1]>>

\* String.prototype.padStart(width, "0")
RECURSIVE padStart0(_, _)
padStart0(s, width) ==
    IF Len(s) >= width THEN s ELSE padStart0(<<"0">> \o s, width)

\* String.prototype.slice(0, n)
slice0(s, n) == SubSeq(s, 1, IF Len(s) < n THEN Len(s) ELSE n)

(***************************************************************************)
(* new Date(string) and Date.prototype.toISOString, date part only.        *)
(* The parser covers the ISO date forms YYYY[-MM[-DD]] and                 *)
(* (+|-)YYYYYY[-MM[-DD]], read as UTC, and the form Y-M-D with a one-digit *)
(* month or day, which Node's fallback parser reads as local midnight.     *)
(* Every other string of the model's inputs is not a date (NaN).           *)
(***************************************************************************)
InvalidDate == [valid |-> FALSE, y |-> 0, m |-> 0, d |-> 0]

MkDate(y, m, d) == [valid |-> TRUE, y |-> y, m |-> m, d |-> d]

IsLeap(y) == y % 4 = 0 /\ (y % 100 # 0 \/ y % 400 = 0)

DaysInMonth(y, m) ==
    IF m = 2 THEN (IF IsLeap(y) THEN 29 ELSE 28)
    ELSE IF m \in {4, 6, 9, 11} THEN 30 ELSE 31

\* the calendar day before dt
PrevDay(dt) ==
    IF dt.d > 1 THEN MkDate(dt.y, dt.m, dt.d - 1)
    ELSE IF dt.m > 1 THEN MkDate(dt.y, dt.m - 1, DaysInMonth(dt.y, dt.m - 1))
    ELSE MkDate(dt.y - 1, 12, 31)

\* a day number 1..31 in a month: days past the month's end roll over
\* into the next month (only months shorter than 31 days can overflow)
MakeDay(y, m, d) ==
    IF d <= DaysInMonth(y, m) THEN MkDate(y, m, d)
    ELSE MkDate(y, m + 1, d - DaysInMonth(y, m))

\* the year of an ISO date string and what follows it, or ok = FALSE
IsoYear(s) ==
    IF Len(s) >= 4 /\ AllDigits(SubSeq(s, 1, 4))
    THEN [ok |-> TRUE, y |-> NumVal(SubSeq(s, 1, 4)), rest |-> SubSeq(s, 5, Len(s))]
    ELSE IF Len(s) >= 7 /\ s[1] \in {"+", "-"} /\ AllDigits(SubSeq(s, 2, 7))
              /\ ~(s[1] = "-" /\ NumVal(SubSeq(s, 2, 7)) = 0)
         THEN [ok |-> TRUE,
               y |-> (IF s[1] = "-" THEN 0 - NumVal(SubSeq(s, 2, 7))
                      ELSE NumVal(SubSeq(s, 2, 7))),
               rest |-> SubSeq(s, 8, Len(s))]
         ELSE [ok |-> FALSE, y |-> 0, rest |-> <<>>]

\* "-MM" at the start of r, two digits
IsDashTwoDigits(r) ==
    Len(r) >= 3 /\ r[1] = "-" /\ IsDigit(r[2]) /\ IsDigit(r[3])

\* the ISO forms: a date in UTC, or InvalidDate
ParseIso(s) ==
    LET yr == IsoYear(s) IN
    IF ~yr.ok THEN InvalidDate
    ELSE IF yr.rest = <<>> THEN MkDate(yr.y, 1, 1)
    ELSE IF ~IsDashTwoDigits(yr.rest) THEN InvalidDate
    ELSE LET m == NumVal(SubSeq(yr.rest, 2, 3))
             r2 == SubSeq(yr.rest, 4, Len(yr.rest))
         IN IF m < 1 \/ m > 12 THEN InvalidDate
            ELSE IF r2 = <<>> THEN MkDate(yr.y, m, 1)
            ELSE IF Len(r2) # 3 \/ ~IsDashTwoDigits(r2) THEN InvalidDate
            ELSE LET d == NumVal(SubSeq(r2, 2, 3))
                 IN IF d < 1 \/ d > 31 THEN InvalidDate
                    ELSE MakeDay(yr.y, m, d)

\* position of the first "-" at or after position i (0 when there is none)
RECURSIVE DashPos(_, _)
DashPos(s, i) ==
    IF i > Len(s) THEN 0
    ELSE IF s[i] = "-" THEN i ELSE DashPos(s, i + 1)

\* the fallback form YYYY-M-D (one or two digits each): local midnight
ParseLegacy(s) ==
    LET p == DashPos(s, 6) IN
    IF Len(s) >= 8 /\ AllDigits(SubSeq(s, 1, 4)) /\ s[5] = "-" /\ p \in {7, 8}
       /\ AllDigits(SubSeq(s, 6, p - 1))
       /\ Len(s) - p \in {1, 2} /\ AllDigits(SubSeq(s, p + 1, Len(s)))
    THEN LET y == NumVal(SubSeq(s, 1, 4))
             m == NumVal(SubSeq(s, 6, p - 1))
             d == NumVal(SubSeq(s, p + 1, Len(s)))
         IN IF m < 1 \/ m > 12 \/ d < 1 \/ d > 31 THEN InvalidDate
            ELSE MakeDay(y, m, d)
    ELSE InvalidDate

\* new Date(s) as the UTC calendar date of the instant it denotes; east is
\* whether local midnight falls on the previous UTC day
ParseDate(s, east) ==
    IF ParseIso(s).valid THEN ParseIso(s)
    ELSE IF ParseLegacy(s).valid
         THEN (IF east THEN PrevDay(ParseLegacy(s)) ELSE ParseLegacy(s))
         ELSE InvalidDate

\* the year of toISOString: four digits, or a sign and six digits outside 0..9999
IsoYearString(y) ==
    IF y >= 0 /\ y <= 9999 THEN padStart0(NumToString(y), 4)
    ELSE <<(IF y < 0 THEN "-" ELSE "+")>>
         \o padStart0(NumToString(IF y < 0 THEN 0 - y ELSE y), 6)

\* Date.prototype.toISOString up to and including the "T"
toISOString(dt) ==
    IsoYearString(dt.y) \o <<"-">> \o padStart0(NumToString(dt.m), 2)
        \o <<"-">> \o padStart0(NumToString(dt.d), 2) \o <<"T">>

\* parsedDate.toISOString().slice(0, 10)
CanonicalDate(dt) == slice0(toISOString(dt), 10)

(***************************************************************************)
(* The time of day                                                         *)
(***************************************************************************)
NoTimeMatch == [ok |-> FALSE, h |-> <<>>, m |-> <<>>]

\* a looser pattern, /^(\d{1,2}):(\d{1,2})$/
TimeMatchLooseMinutes(t) ==
    LET p == CHOOSE i \in 0..Len(t) : (i = 0 /\ \A j \in 1..Len(t) : t[j] # ":")
                                       \/ (i > 0 /\ t[i] = ":"
                                           /\ \A j \in 1..(i - 1) : t[j] # ":")
    IN IF p \in {2, 3} /\ AllDigits(SubSeq(t, 1, p - 1))
          /\ Len(t) - p \in {1, 2} /\ AllDigits(SubSeq(t, p + 1, Len(t)))
       THEN [ok |-> TRUE, h |-> SubSeq(t, 1, p - 1), m |-> SubSeq(t, p + 1, Len(t))]
       ELSE NoTimeMatch

\* time.match(/^(\d{1,2}):(\d{2})$/): the two groups
TimeMatch(t) ==
    LET p == CHOOSE i \in 0..Len(t) : (i = 0 /\ \A j \in 1..Len(t) : t[j] # ":")
                                       \/ (i > 0 /\ t[i] = ":"
                                           /\ \A j \in 1..(i - 1) : t[j] # ":")
    IN IF p \in {2, 3} /\ AllDigits(SubSeq(t, 1, p - 1))
          /\ Len(t) - p = 2 /\ AllDigits(SubSeq(t, p + 1, Len(t)))
       THEN [ok |-> TRUE, h |-> SubSeq(t, 1, p - 1), m |-> SubSeq(t, p + 1, Len(t))]
       ELSE NoTimeMatch

\* `${hours.toString().padStart(2, "0")}:${minutes.toString().padStart(2, "0")}`
FormatTime(hours, minutes) ==
    padStart0(NumToString(hours), 2) \o <<":">> \o padStart0(NumToString(minutes), 2)

(***************************************************************************)
(* The Event schema                                                        *)
(***************************************************************************)
\* the required string paths, in the order the hook asserts them
RequiredStrings ==
    <<"title", "description", "overview", "image", "venue", "location",
      "date", "time", "mode", "audience", "organizer">>

\* the required array paths, in the order the hook asserts them
RequiredArrays == <<"agenda", "tags">>

\* paths declared with trim: true
TrimmedPaths ==
    {"title", "description", "overview", "image", "venue", "location",
     "mode", "audience", "organizer"}

EventPaths == Range(RequiredStrings) \cup Range(RequiredArrays) \cup {"slug"}

\* the schema's setter for a path: trim: true trims a string on assignment
EventSetter(path, value) ==
    IF path \in TrimmedPaths /\ IsString(value) THEN trim(value) ELSE value

\* typeof value !== "string" || value.trim().length === 0
IsEmptyString(value) == ~IsString(value) \/ Len(trim(value)) = 0

\* !Array.isArray(value) || value.length === 0 || value.some(blank); a path of
\* type [String] always holds an array (it defaults to [])
IsEmptyStringArray(value) ==
    Len(value) = 0 \/ \E i \in 1..Len(value) : IsEmptyString(value[i])

\* the first required string path that assertNonEmptyString rejects, by
\* position in RequiredStrings (0 when every assertion passes)
FirstMissingString(f) ==
    IF \E i \in 1..Len(RequiredStrings) : IsEmptyString(f[RequiredStrings[i]])
    THEN CHOOSE i \in 1..Len(RequiredStrings) :
            /\ IsEmptyString(f[RequiredStrings[i]])
            /\ \A j \in 1..(i - 1) : ~IsEmptyString(f[RequiredStrings[j]])
    ELSE 0

\* the first required array path that assertNonEmptyStringArray rejects
FirstInvalidArray(f) ==
    IF \E i \in 1..Len(RequiredArrays) : IsEmptyStringArray(f[RequiredArrays[i]])
    THEN CHOOSE i \in 1..Len(RequiredArrays) :
            /\ IsEmptyStringArray(f[RequiredArrays[i]])
            /\ \A j \in 1..(i - 1) : ~IsEmptyStringArray(f[RequiredArrays[j]])
    ELSE 0

\* a drift of the condition: the slug is regenerated on every save
ShouldGenerateSlugAlways(d) == TRUE

\* this.isModified("title") || !this.slug
ShouldGenerateSlug(d) == "title" \in d.modified \/ ~Truthy(d.f.slug)

\* an assignment this.path = value inside the hook: the path is marked
\* modified when the value changes
Assign(d, path, value) ==
    IF d.f[path] = value THEN d
    ELSE [d EXCEPT !.f[path] = value, !.modified = @ \cup {path}]

\* The hook's steps return the document as they leave it and the error they
\* threw ("none" when they went through).

\* the assertions on the required strings and arrays
ValidateRequired(d) ==
    IF FirstMissingString(d.f) # 0
    THEN [error |-> "MissingField",
          path |-> RequiredStrings[FirstMissingString(d.f)], d |-> d]
    ELSE IF FirstInvalidArray(d.f) # 0
    THEN [error |-> "InvalidArrayField",
          path |-> RequiredArrays[FirstInvalidArray(d.f)], d |-> d]
    ELSE [error |-> "none", path |-> "", d |-> d]

\* new Date(this.date), the NaN test, this.date = toISOString().slice(0, 10)
NormalizeDate(d, east) ==
    The({ IF ~parsedDate.valid
          THEN [error |-> "InvalidDate", path |-> "date", d |-> d]
          ELSE [error |-> "none", path |-> "",
                d |-> Assign(d, "date", CanonicalDate(parsedDate))] :
            parsedDate \in {ParseDate(d.f.date, east)} })

\* the match, the range test, this.time = zero-padded HH:MM
NormalizeTime(d) ==
    The({ IF ~timeMatch.ok
          THEN [error |-> "InvalidTime", path |-> "time", d |-> d]
          ELSE LET hours == NumVal(timeMatch.h)
                   minutes == NumVal(timeMatch.m)
               IN IF hours < 0 \/ hours > 23 \/ minutes < 0 \/ minutes > 59
                  THEN [error |-> "InvalidTime", path |-> "time", d |-> d]
                  ELSE [error |-> "none", path |-> "",
                        d |-> Assign(d, "time", FormatTime(hours, minutes))] :
            timeMatch \in {TimeMatch(trim(d.f.time))} })

\* if (this.isModified("title") || !this.slug) this.slug = slugify(this.title)
GenerateSlug(d) ==
    IF ShouldGenerateSlug(d)
    THEN The({ Assign(d, "slug", slug) : slug \in {slugify(d.f.title)} })
    ELSE d

\* The pre-save hook of the Event schema: the steps in order, each on the
\* document the step before it left, the first error thrown ending the hook.
EventPreSave(d, east) ==
    IF ValidateRequired(d).error # "none" THEN ValidateRequired(d)
    ELSE The({ IF rd.error # "none" THEN rd
               ELSE The({ IF rt.error # "none" THEN rt
                          ELSE [error |-> "none", path |-> "",
                                d |-> GenerateSlug(rt.d)] :
                            rt \in {NormalizeTime(rd.d)} }) :
                 rd \in {NormalizeDate(d, east)} })

\* the unique index on slug: another stored Event already has this slug
SlugTaken(store, id, slug) ==
    \E other \in DOMAIN store : other # id /\ store[other].slug = slug

(***************************************************************************)
(* Inputs of the Event operations                                          *)
(***************************************************************************)
Str_x == <<"x">>
Blank == <<" ">>

TitleMyEvent == <<" ", "M", "y", " ", "E", "v", "e", "n", "t">>       \* " My Event"
TitleSymbols == <<"!", "?">>                                      \* "!?"
DateIso == <<"2", "0", "2", "5", "-", "0", "1", "-", "3", "1">>       \* "2025-01-31"
DateShort == <<"2", "0", "2", "5", "-", "1", "-", "5">>                 \* "2025-1-5"
DateExpanded == <<"+", "0", "0", "2", "0", "2", "5", "-", "0", "1", "-", "0", "5">>    \* "+002025-01-05"
DateYear10000 == <<"+", "0", "1", "0", "0", "0", "0", "-", "0", "1", "-", "0", "1">>   \* "+010000-01-01"
DateWord == <<"s", "o", "o", "n">>                                    \* "soon"
Time9_5 == <<"9", ":", "5">>                                        \* "9:5"
Time9_05 == <<"9", ":", "0", "5">>                                  \* "9:05"
Time2359 == <<" ", "2", "3", ":", "5", "9">>                        \* " 23:59"
Time2400 == <<"2", "4", ":", "0", "0">>                            \* "24:00"
SlugRaw == <<"M", "y", " ", "S", "l", "u", "g">>               \* "My Slug"
SlugTidy == <<"x", "-", "1">>                                       \* "x-1"

\* attributes that pass every check
BaseAttrs ==
    [title |-> TitleMyEvent, slug |-> Undefined, description |-> Str_x,
     overview |-> Str_x, image |-> Str_x, venue |-> Str_x, location |-> Str_x,
     date |-> DateIso, time |-> Time9_05, mode |-> Str_x, audience |-> Str_x,
     agenda |-> <<Str_x>>, organizer |-> Str_x, tags |-> <<Str_x>>]

TitleInputs == {TitleMyEvent, TitleSymbols, Blank}
DateInputs == {DateIso, DateShort, DateExpanded, DateYear10000, DateWord}
TimeInputs == {Time9_5, Time9_05, Time2359, Time2400}
SlugInputs == {SlugRaw, SlugTidy, <<>>}

\* what a caller hands to new Event(attrs): the valid attributes with one
\* of title, date and time replaced, or with one path missing or blank
EventInputs ==
    { [BaseAttrs EXCEPT !.title = t] : t \in TitleInputs }
    \cup { [BaseAttrs EXCEPT !.date = dt] : dt \in DateInputs }
    \cup { [BaseAttrs EXCEPT !.time = tm] : tm \in TimeInputs }
    \cup { [BaseAttrs EXCEPT !.slug = SlugRaw],
           [BaseAttrs EXCEPT !.date = DateExpanded, !.time = Time9_5],
           [BaseAttrs EXCEPT !.description = Undefined],
           [BaseAttrs EXCEPT !.organizer = Blank],
           [BaseAttrs EXCEPT !.time = Undefined],
           [BaseAttrs EXCEPT !.agenda = <<>>],
           [BaseAttrs EXCEPT !.tags = <<<<>>, Blank>>] }

\* what a caller assigns to a path of a document, doc.path = value
PathInputs(path) ==
    CASE path = "title" -> TitleInputs
      [] path = "slug" -> SlugInputs
      [] path = "description" -> {<<"y">>}
      [] path = "date" -> {DateShort, DateYear10000}
      [] path = "time" -> {Time9_5, Time2359}

AssignablePaths == {"title", "slug", "description", "date", "time"}

(***************************************************************************)
(* Event operations                                                        *)
(***************************************************************************)
NoDoc == [id |-> 0]
NoSave == [outcome |-> "idle"]

\* new Event(attrs): every path given is set through its setter and is
\* modified; the document gets a fresh _id
NewEvent(attrs) ==
    /\ nops < MaxOps
    /\ nops' = nops + 1
    /\ doc = NoDoc
    /\ Cardinality(DOMAIN events) < MaxEvents
    /\ doc' = [id |-> Cardinality(DOMAIN events) + 1,
               isNew |-> TRUE,
               f |-> [p \in EventPaths |-> EventSetter(p, attrs[p])],
               modified |-> {p \in EventPaths :
                              p \in Range(RequiredArrays) \/ IsString(attrs[p])}]
    /\ last' = NoSave
    /\ UNCHANGED <<events, tzEast, bookings, brun, nruns, sx, sout>>

\* Event.findById(id): the stored document, nothing modified
LoadEvent(id) ==
    /\ nops < MaxOps
    /\ nops' = nops + 1
    /\ doc = NoDoc
    /\ id \in DOMAIN events
    /\ doc' = [id |-> id, isNew |-> FALSE, f |-> events[id], modified |-> {}]
    /\ last' = NoSave
    /\ UNCHANGED <<events, tzEast, bookings, brun, nruns, sx, sout>>

\* doc.path = value
SetPath(path, value) ==
    /\ nops < MaxOps
    /\ nops' = nops + 1
    /\ doc # NoDoc
    /\ doc.f[path] # EventSetter(path, value)
    /\ doc' = Assign(doc, path, EventSetter(path, value))
    /\ last' = NoSave
    /\ UNCHANGED <<events, tzEast, bookings, brun, nruns, sx, sout>>

\* the document goes out of use
DropEvent ==
    /\ nops < MaxOps
    /\ nops' = nops + 1
    /\ doc # NoDoc
    /\ doc' = NoDoc
    /\ last' = NoSave
    /\ UNCHANGED <<events, tzEast, bookings, brun, nruns, sx, sout>>

\* doc.save(): the pre-save hook, then the insert or update under the
\* unique index on slug
SaveEvent ==
    /\ nops < MaxOps
    /\ nops' = nops + 1
    /\ doc # NoDoc
    /\ \E r \in {EventPreSave(doc, tzEast)} :
       LET dup == r.error = "none" /\ SlugTaken(events, doc.id, r.d.f.slug)
           ok == r.error = "none" /\ ~dup
       IN /\ events' = IF ok
                       THEN [i \in DOMAIN events \cup {doc.id} |->
                               IF i = doc.id THEN r.d.f ELSE events[i]]
                       ELSE events
          /\ doc' = IF ok THEN [r.d EXCEPT !.isNew = FALSE, !.modified = {}] ELSE r.d
          /\ last' = [outcome |-> IF dup THEN "DuplicateKey" ELSE r.error,
                      path |-> r.path,
                      id |-> doc.id,
                      wasNew |-> doc.isNew,
                      pre |-> doc.f,
                      titleModified |-> "title" \in doc.modified,
                      stored |-> IF doc.id \in DOMAIN events
                                 THEN <<events[doc.id]>> ELSE <<>>]
    /\ UNCHANGED <<tzEast, bookings, brun, nruns, sx, sout>>

EventNext ==
    \/ \E attrs \in EventInputs : NewEvent(attrs)
    \/ \E id \in 1..MaxEvents : LoadEvent(id)
    \/ \E path \in AssignablePaths : \E value \in PathInputs(path) : SetPath(path, value)
    \/ DropEvent
    \/ SaveEvent

(***************************************************************************)
(* The Booking schema                                                      *)
(***************************************************************************)
\* emailRegex.test(value) for /^[^\s@]+@[^\s@]+\.[^\s@]+$/: one "@", no
\* white space, something before the "@", and after it a "." with something
\* on both sides
isValidEmail(value) ==
    \E a \in 2..Len(value) :
        /\ value[a] = "@"
        /\ \A j \in 1..Len(value) : ~IsSpace(value[j]) /\ (value[j] = "@" => j = a)
        /\ \E k \in (a + 2)..(Len(value) - 1) : value[k] = "."

\* a setter that lower-cases and does not trim
BookingEmailSetterNoTrim(value) ==
    IF IsString(value) THEN toLowerCase(value) ELSE value

\* email: { trim: true, lowercase: true }: the setters applied on assignment
BookingEmailSetter(value) ==
    IF IsString(value) THEN trim(toLowerCase(value)) ELSE value

\* no identifier given
NoId == 0

\* a hook that goes on to the existence check whatever the fields hold
BookingFormatCheckSkipped(eventId, email) == "none"

\* the hook up to its await: the error thrown by the first failing check
BookingFormatCheck(eventId, email) ==
    IF eventId = NoId THEN "MissingEventId"
    ELSE IF ~IsString(email) \/ Len(trim(email)) = 0 THEN "MissingEmail"
    ELSE IF ~isValidEmail(email) THEN "InvalidEmail"
    ELSE "none"

\* a hook that does not look at the answer
BookingAfterExistsUnchecked(eventExists) == "none"

\* the hook after its await: if (!eventExists) throw
BookingAfterExists(eventExists) ==
    IF ~eventExists THEN "DanglingReference" ELSE "none"

\* a hook that catches the rejection and reports the Event as missing
BookingOnRejectAsMissing(b) ==
    [b EXCEPT !.pc = "done", !.outcome = "DanglingReference"]

\* the awaited Event.exists(...) rejects: nothing catches it, the hook's
\* promise rejects with the gateway's error and save() fails with it
BookingOnReject(b) ==
    [b EXCEPT !.pc = "done", !.outcome = "GatewayError"]

(***************************************************************************)
(* Inputs of the Booking operations                                        *)
(***************************************************************************)
EmailPadded == <<" ", " ", "F", "O", "O", "@", "B", "A", "R", ".", "c", "o", "m", " ">>
EmailWord == <<"n", "o", "t", "-", "a", "n", "-", "e", "m", "a", "i", "l">>
EmailSpaced == <<"a", " ", "b", "@", "c", ".", "d">>
EmailNoTld == <<"a", "@", "b">>

EmailInputs ==
    {EmailPadded, EmailWord, EmailSpaced, EmailNoTld, Blank, Undefined}

\* the identifiers a Booking may name: none, a stored Event's, or one that
\* no Event ever gets
EventIdInputs == 0..(MaxEvents + 1)

(***************************************************************************)
(* Booking operations                                                      *)
(***************************************************************************)
NoRun == [pc |-> "idle"]

\* Booking.create({eventId, email}): the document is built through the
\* setters and save() runs the hook up to its await
BookingSave(eventId, rawEmail) ==
    /\ brun.pc \in {"idle", "done"}
    /\ nruns < MaxRuns
    /\ nruns' = nruns + 1
    /\ LET email == BookingEmailSetter(rawEmail)
           err == BookingFormatCheck(eventId, email)
       IN brun' = [pc |-> IF err = "none" THEN "awaiting" ELSE "done",
                   run |-> nruns + 1,
                   eventId |-> eventId,
                   raw |-> rawEmail,
                   email |-> email,
                   queries |-> IF err = "none" THEN 1 ELSE 0,
                   answer |-> "none",
                   outcome |-> err]
    /\ UNCHANGED <<events, doc, last, nops, tzEast, bookings, sx, sout>>

\* Event.exists({_id}) answers from the collection; the hook resumes and,
\* when it returns, the Booking is inserted
BookingExistsAnswers ==
    /\ brun.pc = "awaiting"
    /\ LET found == brun.eventId \in DOMAIN events
           err == BookingAfterExists(found)
       IN /\ brun' = [brun EXCEPT !.pc = "done",
                                  !.answer = IF found THEN "found" ELSE "null",
                                  !.outcome = err]
          /\ bookings' = IF err = "none"
                         THEN bookings \cup {[run |-> brun.run,
                                              eventId |-> brun.eventId,
                                              email |-> brun.email,
                                              answer |-> IF found THEN "found" ELSE "null"]}
                         ELSE bookings
    /\ UNCHANGED <<events, doc, last, nops, tzEast, nruns, sx, sout>>

\* Event.exists({_id}) fails to complete
BookingExistsRejects ==
    /\ brun.pc = "awaiting"
    /\ brun' = [BookingOnReject(brun) EXCEPT !.answer = "rejected"]
    /\ UNCHANGED <<events, doc, last, nops, tzEast, bookings, nruns, sx, sout>>

BookingNext ==
    \/ \E eventId \in EventIdInputs : \E rawEmail \in EmailInputs :
          BookingSave(eventId, rawEmail)
    \/ BookingExistsAnswers
    \/ BookingExistsRejects
    \/ \E t \in {TitleMyEvent, TitleSymbols} : NewEvent([BaseAttrs EXCEPT !.title = t])
    \/ SaveEvent
    \/ DropEvent

Init ==
    /\ events = <<>>
    /\ doc = NoDoc
    /\ last = NoSave
    /\ nops = 0
    /\ tzEast \in BOOLEAN
    /\ bookings = {}
    /\ brun = NoRun
    /\ nruns = 0
    /\ sx = <<>>
    /\ sout = <<>>

Spec == Init /\ [][EventNext]_vars

\* the Booking hook reads no clock: one time zone is enough
BookingInit == Init /\ ~tzEast

BookingSpec == BookingInit /\ [][BookingNext]_vars

(***************************************************************************)
(* slugify on its own: every string over SlugAlphabet up to MaxSlugLen     *)
(***************************************************************************)
SlugAlphabet == {"a", "B", "1", "-", " ", "!"}

SlugInit ==
    /\ events = <<>>
    /\ doc = NoDoc
    /\ last = NoSave
    /\ nops = 0
    /\ tzEast = FALSE
    /\ bookings = {}
    /\ brun = NoRun
    /\ nruns = 0
    /\ sx \in UNION { [1..n -> SlugAlphabet] : n \in 0..MaxSlugLen }
    /\ sout = <<>>

\* slugify applied to sx, and to its own result
ApplySlugify ==
    /\ sout = <<>>
    /\ sout' = <<slugify(sx), slugify(slugify(sx))>>
    /\ UNCHANGED <<events, doc, last, nops, tzEast, bookings, brun, nruns, sx>>

SlugSpec == SlugInit /\ [][ApplySlugify]_vars

(***************************************************************************)
(* Predicates the claims are stated with                                   *)
(***************************************************************************)
\* ^\d{4}-\d{2}-\d{2}$
IsYmd(s) ==
    /\ Len(s) = 10
    /\ \A i \in {1, 2, 3, 4, 6, 7, 9, 10} : IsDigit(s[i])
    /\ s[5] = "-" /\ s[8] = "-"

\* ^\d{2}:\d{2}$ with hour <= 23 and minute <= 59
IsHHMM(s) ==
    /\ Len(s) = 5
    /\ \A i \in {1, 2, 4, 5} : IsDigit(s[i])
    /\ s[3] = ":"
    /\ NumVal(SubSeq(s, 1, 2)) <= 23
    /\ NumVal(SubSeq(s, 4, 5)) <= 59

\* runs of [a-z0-9] joined by single "-", no leading or trailing "-"
\* (the empty string, no run at all, is let through)
IsSlugForm(s) ==
    /\ IsString(s)
    /\ \A i \in 1..Len(s) : IsLowerAlnum(s[i]) \/ s[i] = "-"
    /\ s # <<>> => s[1] # "-" /\ s[Len(s)] # "-"
    /\ \A i \in 1..(Len(s) - 1) : ~(s[i] = "-" /\ s[i + 1] = "-")

\* the stored Event with this _id, as a sequence of zero or one records
StoredEvent(id) == IF id \in DOMAIN events THEN <<events[id]>> ELSE <<>>

\* the last save() failed in the hook
HookFailed ==
    last.outcome \in {"MissingField", "InvalidArrayField", "InvalidDate", "InvalidTime"}

\* every field of f but time passes the hook's checks
ValidButTime(f, east) ==
    /\ \A i \in 1..Len(RequiredStrings) :
          RequiredStrings[i] # "time" => ~IsEmptyString(f[RequiredStrings[i]])
    /\ \A i \in 1..Len(RequiredArrays) : ~IsEmptyStringArray(f[RequiredArrays[i]])
    /\ ParseDate(f.date, east).valid

Time0905 == <<"0", "9", ":", "0", "5">>
EmailNormal == <<"f", "o", "o", "@", "b", "a", "r", ".", "c", "o", "m">>

(***************************************************************************)
(* Claims                                                                  *)
(***************************************************************************)

\* C1: a Booking write whose existence check finds no Event fails with
\* DanglingReference and stores nothing, and every stored Booking's
\* existence check found its Event.
C1_NoDanglingBooking ==
    /\ \A b \in bookings : b.answer = "found"
    /\ (brun.pc = "done" /\ brun.answer = "null") =>
          /\ brun.outcome = "DanglingReference"
          /\ \A b \in bookings : b.run # brun.run

C1_Witness ==
    /\ brun.pc = "done" /\ brun.answer = "null"
    /\ \E b \in bookings : b.run # brun.run

\* C2: when the Event hook fails, nothing is stored and the document's date,
\* time and slug are what they were before the hook ran.
C2_NoPartialNormalization ==
    HookFailed =>
        /\ StoredEvent(last.id) = last.stored
        /\ doc.f.date = last.pre.date
        /\ doc.f.time = last.pre.time
        /\ doc.f.slug = last.pre.slug

\* C3: a successful Event save sets slug to slugify(title) exactly when title
\* was modified or the document has no slug, and otherwise leaves slug as it
\* was; the stored slug is the document's.
C3_SlugRegeneratedOnlyOnTitleChange ==
    last.outcome = "none" =>
        /\ doc.f.slug = IF last.titleModified \/ ~Truthy(last.pre.slug)
                        THEN slugify(last.pre.title)
                        ELSE last.pre.slug
        /\ events[last.id].slug = doc.f.slug

C3_Witness ==
    /\ last.outcome = "none"
    /\ ~last.wasNew
    /\ ~last.titleModified
    /\ Truthy(last.pre.slug)
    /\ last.stored # <<>>
    /\ last.stored[1].description # events[last.id].description
    /\ events[last.id].slug = last.stored[1].slug
    /\ events[last.id].slug # <<>>

\* C4: every stored Event has a date YYYY-MM-DD and a time HH:MM with
\* hour <= 23 and minute <= 59.
C4_StoredDateTimeCanonical ==
    \A id \in DOMAIN events : IsYmd(events[id].date) /\ IsHHMM(events[id].time)

\* C5 as stated: an Event write with time "9:5" and otherwise valid fields is
\* stored with time "09:05".
C5_OneDigitMinuteAccepted ==
    (last.outcome # "idle" /\ last.pre.time = Time9_5 /\ ValidButTime(last.pre, tzEast)) =>
        /\ last.outcome = "none"
        /\ events[last.id].time = Time0905

\* C5 amended: an Event write with time "9:5" and otherwise valid fields
\* fails with InvalidTime and stores nothing; with time "9:05" it passes time
\* validation and, when stored, is stored with time "09:05".
C5_OneDigitMinuteRejected ==
    (last.outcome # "idle" /\ ValidButTime(last.pre, tzEast)) =>
        /\ last.pre.time = Time9_5 =>
              /\ last.outcome = "InvalidTime"
              /\ StoredEvent(last.id) = last.stored
        /\ last.pre.time = Time9_05 =>
              /\ last.outcome \in {"none", "DuplicateKey"}
              /\ doc.f.time = Time0905
              /\ last.outcome = "none" => events[last.id].time = Time0905

C5_Witness ==
    /\ last.outcome = "InvalidTime"
    /\ last.pre.time = Time9_5
    /\ ValidButTime(last.pre, tzEast)

\* C6: a Booking whose Event exists and whose trimmed email matches the
\* pattern is stored with the trimmed, lower-cased email; white space around
\* the input and upper-case letters in it never give InvalidEmail.
C6_EmailNormalized ==
    (brun.pc # "idle" /\ brun.eventId # NoId /\ IsString(brun.raw)
        /\ isValidEmail(trim(brun.raw))) =>
        /\ brun.outcome \notin {"InvalidEmail", "MissingEmail"}
        /\ brun.queries = 1
        /\ brun.answer = "found" =>
              /\ brun.outcome = "none"
              /\ \E b \in bookings :
                    /\ b.run = brun.run
                    /\ b.eventId = brun.eventId
                    /\ b.email = toLowerCase(trim(brun.raw))

C6_Witness ==
    /\ brun.pc = "done"
    /\ brun.raw = EmailPadded
    /\ \E b \in bookings : b.run = brun.run /\ b.email = EmailNormal

\* C7: the existence query is issued only in a run whose eventId is present,
\* whose email is non-empty and whose email matches the pattern; a run that
\* fails one of these ends without a query; no run issues more than one.
C7_QueryAfterFormatChecks ==
    brun.pc # "idle" =>
        LET formatOk == /\ brun.eventId # NoId
                        /\ IsString(brun.email)
                        /\ Len(trim(brun.email)) > 0
                        /\ isValidEmail(brun.email)
        IN /\ brun.queries \in {0, 1}
           /\ brun.queries = 1 => formatOk
           /\ ~formatOk =>
                 /\ brun.pc = "done"
                 /\ brun.queries = 0
                 /\ brun.answer = "none"
                 /\ brun.outcome \in {"MissingEventId", "MissingEmail", "InvalidEmail"}

C7_Witness ==
    /\ brun.pc = "done"
    /\ brun.outcome = "InvalidEmail"
    /\ brun.queries = 0
    /\ brun.eventId \in DOMAIN events

\* C8: every stored Event's slug is lower-case runs of [a-z0-9] joined by
\* single "-", with no leading or trailing "-".
C8_StoredSlugUrlSafe ==
    \A id \in DOMAIN events : IsSlugForm(events[id].slug)

\* C9: slugify(slugify(x)) = slugify(x) for every x, and slugify(x) = x for
\* every x already in slug form.
C9_SlugifyIdempotent ==
    sout # <<>> =>
        /\ sout[2] = sout[1]
        /\ IsSlugForm(sx) => sout[1] = sx

C9_Witness ==
    /\ sout # <<>>
    /\ sout[1] # sx
    /\ Len(sout[1]) >= 3
    /\ \E i \in 1..Len(sout[1]) : sout[1][i] = "-"
    /\ \E i \in 1..Len(sx) : sx[i] = "!"

\* C10: when the existence check fails to complete, the Booking write ends
\* with no Booking stored, the query was issued once, and the failure is not
\* DanglingReference.
C10_GatewayFailureAborts ==
    (brun.pc # "idle" /\ brun.answer = "rejected") =>
        /\ brun.pc = "done"
        /\ brun.outcome \notin {"none", "DanglingReference"}
        /\ brun.queries = 1
        /\ \A b \in bookings : b.run # brun.run

C10_Witness ==
    /\ brun.pc = "done"
    /\ brun.answer = "rejected"
    /\ brun.eventId \in DOMAIN events

====
